---------------------------- MODULE Spec2Model ----------------------------
(***************************************************************************)
(* Model of index.js: the pnodes slash command of the Discord bot.         *)
(*                                                                         *)
(*   rpcCall          one JSON-RPC POST, two awaits (fetch, res.json)      *)
(*   extractPods      pulls the pods array out of an RPC result            *)
(*   getPodsByVersion / getTotalPods   the two derived figures             *)
(*   getPNodesInfo    Promise.all over four calls, try/catch, the report   *)
(*   InteractionCreate handler   deferReply, getPNodesInfo, editReply      *)
(*                                                                         *)
(* JavaScript values are tagged records ([t |-> "undefined"], ...).  A     *)
(* text is a sequence of string pieces; version strings are kept character *)
(* by character so that String.prototype.includes is a real substring      *)
(* search.  A completion is [type |-> "return", value |-> v] or            *)
(* [type |-> "throw", error |-> e], as in the ECMAScript specification.    *)
(***************************************************************************)
EXTENDS Integers, Sequences, FiniteSets, TLC

\* ------------------------------------------------------------------------
\* Bounds of the model
\* ------------------------------------------------------------------------
\* Longest pods array of the inputs of the function-level specification.
MaxPods == 3
\* Largest total_count the remote reports in the function-level inputs.
MaxTotal == 3

\* ------------------------------------------------------------------------
\* JavaScript values
\* ------------------------------------------------------------------------
Undefined == [t |-> "undefined"]
Null == [t |-> "null"]
Num(n) == [t |-> "num", n |-> n]
Str(s) == [t |-> "str", s |-> s]
Bool(b) == [t |-> "bool", b |-> b]
Arr(a) == [t |-> "arr", a |-> a]

Return(v) == [type |-> "return", value |-> v]
Throw(e) == [type |-> "throw", error |-> e]
\* new Error(message) and the engine's TypeError
Error(m) == [name |-> "Error", message |-> m]
TypeError(m) == [name |-> "TypeError", message |-> m]
FetchError(m) == [name |-> "FetchError", message |-> m]

\* JavaScript truthiness (ToBoolean) of a value, as used by `if (data.error)`
\* and `rpcResult && ...`.
Truthy(v) ==
  CASE v.t = "undefined" -> FALSE
    [] v.t = "null" -> FALSE
    [] v.t = "bool" -> v.b
    [] v.t = "num" -> v.n /= 0
    [] v.t = "str" -> v.s /= <<>>
    [] OTHER -> TRUE

\* Property read `v.name` on a value that is neither null nor undefined: the
\* field of an object, undefined on a missing field or on a primitive.
Get(v, name) ==
  IF v.t = "obj" /\ name \in DOMAIN v.f THEN v.f[name] ELSE Undefined

Obj(f) == [t |-> "obj", f |-> f]

\* Decimal digits of a natural number, one character per piece.
Digit(d) ==
  CASE d = 0 -> "0" [] d = 1 -> "1" [] d = 2 -> "2" [] d = 3 -> "3"
    [] d = 4 -> "4" [] d = 5 -> "5" [] d = 6 -> "6" [] d = 7 -> "7"
    [] d = 8 -> "8" [] OTHER -> "9"

RECURSIVE NatText(_)
NatText(n) == IF n < 10 THEN <<Digit(n)>> ELSE NatText(n \div 10) \o <<Digit(n % 10)>>

\* Number::toString for the integers of the model.
NumText(n) == IF n < 0 THEN <<"-">> \o NatText(0 - n) ELSE NatText(n)

\* String(v) and template-literal interpolation `${v}` (ToString).
ToText(v) ==
  CASE v.t = "undefined" -> <<"u", "n", "d", "e", "f", "i", "n", "e", "d">>
    [] v.t = "null" -> <<"n", "u", "l", "l">>
    [] v.t = "bool" -> IF v.b THEN <<"t", "r", "u", "e">> ELSE <<"f", "a", "l", "s", "e">>
    [] v.t = "num" -> NumText(v.n)
    [] v.t = "str" -> v.s
    [] OTHER -> <<"[object Object]">>

\* Variant that matches at the start only (startsWith).
IncludesAtStart(s, f) == Len(f) <= Len(s) /\ \A j \in 1..Len(f) : s[j] = f[j]

\* String.prototype.includes(f): some start position at which every piece
\* of f matches (position Len(s)+1 matches the empty f).
MatchesAt(s, f, k) == \A j \in 1..Len(f) : s[k + j - 1] = f[j]

Includes(s, f) == \E k \in 1..(Len(s) - Len(f) + 1) : MatchesAt(s, f, k)

\* ------------------------------------------------------------------------
\* rpcCall (index.js 33-57)
\* ------------------------------------------------------------------------
\* The request body built by rpcCall(method, params = []).  The id
\* (Date.now()) is a timestamp no operation of the program reads back.
Payload(method, params) == [jsonrpc |-> "2.0", method |-> method, params |-> params]

\* Variant without the res.ok check: every response body is parsed.
RpcAfterFetchUnchecked(fo) ==
  IF fo.t = "reject" THEN Throw(fo.error) ELSE [type |-> "json"]

\* rpcCall after `await fetch(...)` settled with outcome fo: a rejected fetch
\* rethrows, a response that is not ok throws before the body is read,
\* otherwise res.json() is called ("json": the second await is pending).
RpcAfterFetch(fo) ==
  IF fo.t = "reject" THEN Throw(fo.error)
  ELSE IF ~fo.ok
       THEN Throw(Error(<<"RPC request failed: ">> \o NumText(fo.status)
                          \o <<" ">> \o fo.statusText))
       ELSE [type |-> "json"]

\* rpcCall after `await res.json()` settled on body: an unparsable body
\* rejects, reading .error of null throws, a truthy error field throws the
\* RPC error, otherwise the result field is returned as it is.
RpcAfterJson(body) ==
  IF body.t = "unparsable"
  THEN Throw(FetchError(<<"invalid json response body">>))
  ELSE LET data == body.data IN
       IF data.t = "null"
       THEN Throw(TypeError(<<"Cannot read properties of null (reading 'error')">>))
       ELSE IF Truthy(Get(data, "error"))
            THEN Throw(Error(<<"RPC error (">>
                               \o ToText(Get(Get(data, "error"), "code"))
                               \o <<"): ">>
                               \o ToText(Get(Get(data, "error"), "message"))))
            ELSE Return(Get(data, "result"))

\* rpcCall as a whole, for one fetch outcome.
RpcCall(fo) ==
  LET c == RpcAfterFetch(fo) IN
  IF c.type = "json" THEN RpcAfterJson(fo.body) ELSE c

\* ------------------------------------------------------------------------
\* extractPods (index.js 62-69)
\* ------------------------------------------------------------------------
\* Variant that checks the pods field for truthiness only and wraps what is
\* no array into one.
ExtractPodsCoerce(rpcResult) ==
  IF Truthy(rpcResult) /\ Truthy(Get(rpcResult, "pods"))
  THEN [pods |-> IF Get(rpcResult, "pods").t = "arr"
                 THEN Get(rpcResult, "pods").a ELSE <<Get(rpcResult, "pods")>>,
        warn |-> <<>>]
  ELSE [pods |-> <<>>,
        warn |-> <<[text |-> "extractPods: unexpected RPC shape", arg |-> rpcResult]>>]

\* The pods array and the diagnostics console.warn received.
ExtractPods(rpcResult) ==
  IF Truthy(rpcResult) /\ Get(rpcResult, "pods").t = "arr"
  THEN [pods |-> Get(rpcResult, "pods").a, warn |-> <<>>]
  ELSE [pods |-> <<>>,
        warn |-> <<[text |-> "extractPods: unexpected RPC shape", arg |-> rpcResult]>>]

\* ------------------------------------------------------------------------
\* getPodsByVersion (index.js 79-85), after rpcCall returned rpcResult
\* ------------------------------------------------------------------------
\* The filter callback: pod.version throws on a null entry.
RECURSIVE FilterCount(_, _)
FilterCount(podsArray, versionFragment) ==
  IF podsArray = <<>> THEN 0
  ELSE (IF Includes(ToText(Get(Head(podsArray), "version")), versionFragment)
        THEN 1 ELSE 0)
       + FilterCount(Tail(podsArray), versionFragment)

PodsByVersionOf(rpcResult, versionFragment) ==
  LET podsArray == ExtractPods(rpcResult).pods IN
  IF \E k \in 1..Len(podsArray) : podsArray[k].t \in {"null", "undefined"}
  THEN Throw(TypeError(<<"Cannot read properties of null (reading 'version')">>))
  ELSE Return(FilterCount(podsArray, versionFragment))

\* getPodsByVersion for the completion c of its rpcCall.
GetPodsByVersion(c, versionFragment) ==
  IF c.type = "throw" THEN c ELSE PodsByVersionOf(c.value, versionFragment)

\* ------------------------------------------------------------------------
\* getTotalPods (index.js 91-99), after rpcCall returned rpcResult
\* ------------------------------------------------------------------------
\* Variant that always counts the list (reconciles counter and list).
TotalPodsFromList(rpcResult) == Return(Len(ExtractPods(rpcResult).pods))

TotalPodsOf(rpcResult) ==
  IF Truthy(rpcResult) /\ Get(rpcResult, "total_count").t = "num"
  THEN Return(Get(rpcResult, "total_count").n)
  ELSE Return(Len(ExtractPods(rpcResult).pods))

GetTotalPods(c) ==
  IF c.type = "throw" THEN c ELSE TotalPodsOf(c.value)

\* ------------------------------------------------------------------------
\* getPNodesInfo (index.js 104-126): the part after `await Promise.all(...)`
\* ------------------------------------------------------------------------
\* The three fragments and the slot of each call in the Promise.all array.
V040 == <<"0", ".", "4", ".", "0">>
V041 == <<"0", ".", "4", ".", "1">>
V042 == <<"0", ".", "4", ".", "2">>
Calls == 1..4
TotalCall == 4
Fragment(i) == CASE i = 1 -> V040 [] i = 2 -> V041 [] OTHER -> V042

ErrorPrefix == "Error retrieving data: "

\* The backtick character (the lexer of TLA+ accepts none inside a string).
Tick == "'"

\* The markdown block of the report.
ReportText(count040, count041, count042, total) ==
  <<Tick, Tick, Tick, "ml\n", "pNodes Version: Counts\n">>
  \o <<"       ", Tick, "0.4.0", Tick, ":      ">> \o NumText(count040) \o <<"\n">>
  \o <<"       ", Tick, "0.4.1", Tick, ":      ">> \o NumText(count041) \o <<"\n">>
  \o <<"       ", Tick, "0.4.2", Tick, ":    ">> \o NumText(count042) \o <<"\n">>
  \o <<"         Total:    ">> \o NumText(total) \o <<"\n">>
  \o <<Tick, Tick, Tick>>

\* Variant without the try/catch: the error propagates to the caller.
CatchRethrow(err) == Throw(err)

\* catch (err) { return `Error retrieving data: ${err.message}` }
CatchClause(err) == Return(<<ErrorPrefix>> \o err.message)

\* Variant that renders whatever values have arrived, also after a failure.
GetPNodesInfoPartial(a) ==
  Return(ReportText(a.values[1], a.values[2], a.values[3], a.values[4]))

\* The completion of getPNodesInfo once Promise.all settled as `a`.
GetPNodesInfoBody(a) ==
  IF a.st = "fulfilled"
  THEN Return(ReportText(a.values[1], a.values[2], a.values[3], a.values[4]))
  ELSE CatchClause(a.reason)

\* ------------------------------------------------------------------------
\* State
\* ------------------------------------------------------------------------
VARIABLES
  pc,          \* position of the InteractionCreate handler
  call,        \* the four calls of Promise.all: state, pending body, completion
  sent,        \* the request bodies handed to fetch, in order
  silent,      \* requests the remote endpoint will never answer
  all,         \* the Promise.all promise: state, values, remaining, reason
  microtasks,  \* the promise job queue (FIFO)
  info,        \* the completion of getPNodesInfo, None while it runs
  reply,       \* the text handed to interaction.editReply, None before
  firstFail,   \* history: the call that rejected first in time, 0 if none
  remote,      \* the result the remote endpoint serves on success
  fnIn,        \* function-level specification: the inputs
  fnOut,       \* function-level specification: the outputs computed so far
  fnPc         \* function-level specification: the next function to apply

vars == <<pc, call, sent, silent, all, microtasks, info, reply, firstFail, remote,
          fnIn, fnOut, fnPc>>
handlerVars == <<pc, call, sent, silent, all, microtasks, info, reply, firstFail, remote>>
fnVars == <<fnIn, fnOut, fnPc>>

None == [t |-> "none"]
\* values slot of Promise.all not yet filled
NoValue == -1

\* ------------------------------------------------------------------------
\* The remote endpoint
\* ------------------------------------------------------------------------
Pod(version) == Obj([version |-> version])
PodsResult(pods, total) == Obj([pods |-> Arr(pods), total_count |-> total])
V1040 == <<"1", "0", ".", "4", ".", "0">>

\* Results the endpoint serves in the handler specification: the example of
\* the documentation, a counter that disagrees with the list, a list without
\* counter, a null entry, no pods field, no result at all.
RemoteResults ==
  { PodsResult(<<Pod(Str(V040)), Pod(Str(V041)), Pod(Str(V041)), Pod(Str(V042))>>, Num(4)),
    PodsResult(<<Pod(Str(V1040)), Pod(Str(V041)), Pod(Num(4))>>, Num(7)),
    Obj([pods |-> Arr(<<Pod(Str(V042)), Obj(<<>>)>>)]),
    PodsResult(<<Pod(Str(V040)), Null>>, Num(2)),
    Obj([total_count |-> Num(5)]),
    Undefined }

RpcErrorBody ==
  [t |-> "json",
   data |-> Obj([error |-> Obj([code |-> Num(-32601),
                                message |-> Str(<<"method not found">>)])])]
ResultBody(result) ==
  [t |-> "json",
   data |-> IF result.t = "undefined" THEN Obj(<<>>) ELSE Obj([result |-> result])]
Response(status, statusText, body) ==
  [t |-> "response", ok |-> status \in 200..299, status |-> status,
   statusText |-> statusText, body |-> body]
ConnectionRefused ==
  [t |-> "reject",
   error |-> FetchError(<<"request to http://127.0.0.1:6000/rpc failed, reason: connect ECONNREFUSED">>)]

\* What one fetch of the handler specification can settle with.
FetchOutcomes(result) ==
  { ConnectionRefused,
    Response(500, <<"Internal Server Error">>, RpcErrorBody),
    Response(200, <<"OK">>, [t |-> "unparsable"]),
    Response(200, <<"OK">>, RpcErrorBody),
    Response(200, <<"OK">>, ResultBody(result)) }

\* ------------------------------------------------------------------------
\* Promise.all (index.js 106-111)
\* ------------------------------------------------------------------------
NewPromiseAll ==
  [st |-> "pending", values |-> [i \in Calls |-> NoValue], remaining |-> 4, reason |-> None]

\* Variant that settles with the first element to settle (Promise.race).
AllAfterRace(a, i, c) ==
  IF c.type = "throw"
  THEN IF a.st = "pending" THEN [a EXCEPT !.st = "rejected", !.reason = c.error] ELSE a
  ELSE [a EXCEPT !.values[i] = c.value,
                 !.remaining = a.remaining - 1,
                 !.st = IF a.st = "pending" THEN "fulfilled" ELSE a.st]

\* Variant that waits for every element before it rejects, and rejects with
\* the latest failure (collect, then throw).
AllAfterWaitAll(a, i, c) ==
  LET r == a.remaining - 1
      reason == IF c.type = "throw" THEN c.error ELSE a.reason IN
  [a EXCEPT !.values[i] = IF c.type = "throw" THEN NoValue ELSE c.value,
            !.remaining = r,
            !.reason = reason,
            !.st = IF a.st = "pending" /\ r = 0
                   THEN (IF reason = None THEN "fulfilled" ELSE "rejected")
                   ELSE a.st]

\* Promise.all after its element i settled with completion c: a rejection
\* rejects the whole at once, a fulfilment stores its value and fulfils the
\* whole when it was the last one; a settled promise keeps its state.
AllAfter(a, i, c) ==
  IF c.type = "throw"
  THEN IF a.st = "pending" THEN [a EXCEPT !.st = "rejected", !.reason = c.error] ELSE a
  ELSE LET r == a.remaining - 1 IN
       [a EXCEPT !.values[i] = c.value,
                 !.remaining = r,
                 !.st = IF a.st = "pending" /\ r = 0 THEN "fulfilled" ELSE a.st]

\* Variant with sequential awaits: call i starts when call i-1 has settled.
IssueAfterPrevious(i) == IF i = 1 THEN TRUE ELSE call[i - 1].st \in {"fulfilled", "rejected"}

\* The array literal of line 106 calls the four functions one after the
\* other; none of the calls awaits anything before the next one starts.
IssueReady(i) == TRUE

NextToIssue == CHOOSE i \in Calls : call[i].st = "unsent" /\ \A j \in 1..(i - 1) : call[j].st /= "unsent"

\* The synchronous block that issues the requests is still running.
Issuing == pc = "issuing" /\ (\E i \in Calls : call[i].st = "unsent") /\ IssueReady(NextToIssue)

\* An I/O callback runs only when the running job ended and the promise job
\* queue is drained (run to completion).
LoopIdle == microtasks = <<>> /\ ~Issuing

Settled(i) == call[i].st \in {"fulfilled", "rejected"}

\* ------------------------------------------------------------------------
\* The InteractionCreate handler (index.js 150-158)
\* ------------------------------------------------------------------------
InteractionKinds == {"notCommand", "otherCommand", "pnodes"}

\* An interaction arrives: anything but the pnodes command is ignored, the
\* pnodes command calls deferReply and awaits it.
InteractionCreate ==
  /\ pc = "idle"
  /\ \E kind \in InteractionKinds :
       pc' = IF kind = "pnodes" THEN "deferring" ELSE "idle"
  /\ UNCHANGED <<call, sent, silent, all, microtasks, info, reply, firstFail, remote>>
  /\ UNCHANGED fnVars

\* deferReply resolved: the handler calls getPNodesInfo.
DeferReplyDone ==
  /\ pc = "deferring"
  /\ pc' = "issuing"
  /\ UNCHANGED <<call, sent, silent, all, microtasks, info, reply, firstFail, remote>>
  /\ UNCHANGED fnVars

\* One element of the array literal: getPodsByVersion / getTotalPods runs up
\* to rpcCall's `await fetch`, which sends the request.  After the fourth,
\* Promise.all is called and getPNodesInfo awaits it.
Issue(i) ==
  /\ pc = "issuing"
  /\ call[i].st = "unsent"
  /\ i = NextToIssue
  /\ IssueReady(i)
  /\ call' = [call EXCEPT ![i].st = "fetching"]
  /\ sent' = Append(sent, Payload("get-pods", <<>>))
  /\ IF i = TotalCall
     THEN pc' = "awaitAll" /\ all' = NewPromiseAll
     ELSE UNCHANGED <<pc, all>>
  /\ UNCHANGED <<silent, microtasks, info, reply, firstFail, remote>>
  /\ UNCHANGED fnVars

\* The async function of call i completes with `out`: its promise settles
\* and the reaction of Promise.all is queued.
Settle(i, out) ==
  /\ call' = [call EXCEPT ![i] = [st |-> IF out.type = "throw" THEN "rejected" ELSE "fulfilled",
                                  body |-> None, out |-> out]]
  /\ microtasks' = Append(microtasks, [kind |-> "react", i |-> i])
  /\ firstFail' = IF firstFail = 0 /\ out.type = "throw" THEN i ELSE firstFail

\* The remote endpoint decides never to answer request i.
RemoteSilent(i) ==
  /\ call[i].st = "fetching"
  /\ i \notin silent
  /\ silent' = silent \cup {i}
  /\ UNCHANGED <<pc, call, sent, all, microtasks, info, reply, firstFail, remote>>
  /\ UNCHANGED fnVars

\* fetch of call i settles: rpcCall resumes after its first await.
FetchSettled(i) ==
  /\ call[i].st = "fetching"
  /\ i \notin silent
  /\ LoopIdle
  /\ \E fo \in FetchOutcomes(remote) :
       LET c == RpcAfterFetch(fo) IN
       IF c.type = "json"
       THEN /\ call' = [call EXCEPT ![i].st = "parsing", ![i].body = fo.body]
            /\ UNCHANGED <<microtasks, firstFail>>
       ELSE Settle(i, c)
  /\ UNCHANGED <<pc, sent, silent, all, info, reply, remote>>
  /\ UNCHANGED fnVars

\* res.json() of call i settles: rpcCall resumes after its second await and
\* returns or throws; the caller computes its figure.
BodyRead(i) ==
  /\ call[i].st = "parsing"
  /\ LoopIdle
  /\ LET c == RpcAfterJson(call[i].body) IN
     Settle(i, IF i = TotalCall THEN GetTotalPods(c) ELSE GetPodsByVersion(c, Fragment(i)))
  /\ UNCHANGED <<pc, sent, silent, all, info, reply, remote>>
  /\ UNCHANGED fnVars

\* Promise job: the reaction of Promise.all to the settlement of one call.
\* When this settles Promise.all, getPNodesInfo's continuation is queued.
PromiseAllReact ==
  /\ microtasks /= <<>>
  /\ Head(microtasks).kind = "react"
  /\ LET i == Head(microtasks).i
         a == AllAfter(all, i, call[i].out) IN
     /\ all' = a
     /\ microtasks' = IF all.st = "pending" /\ a.st /= "pending"
                      THEN Append(Tail(microtasks), [kind |-> "resumeInfo", i |-> 0])
                      ELSE Tail(microtasks)
  /\ UNCHANGED <<pc, call, sent, silent, info, reply, firstFail, remote>>
  /\ UNCHANGED fnVars

\* Promise job: getPNodesInfo resumes after `await Promise.all` and completes.
GetPNodesInfoResume ==
  /\ microtasks /= <<>>
  /\ Head(microtasks).kind = "resumeInfo"
  /\ info' = GetPNodesInfoBody(all)
  /\ microtasks' = Append(Tail(microtasks), [kind |-> "resumeHandler", i |-> 0])
  /\ UNCHANGED <<pc, call, sent, silent, all, reply, firstFail, remote>>
  /\ UNCHANGED fnVars

\* Promise job: the handler resumes after `await getPNodesInfo()`: a thrown
\* completion is an unhandled rejection of the handler, a returned text is
\* handed to editReply.
HandlerResume ==
  /\ microtasks /= <<>>
  /\ Head(microtasks).kind = "resumeHandler"
  /\ microtasks' = Tail(microtasks)
  /\ IF info.type = "throw"
     THEN pc' = "crashed" /\ UNCHANGED reply
     ELSE pc' = "editing" /\ reply' = info.value
  /\ UNCHANGED <<call, sent, silent, all, info, firstFail, remote>>
  /\ UNCHANGED fnVars

\* editReply resolved: the handler ends.
EditReplyDone ==
  /\ pc = "editing"
  /\ LoopIdle
  /\ pc' = "done"
  /\ UNCHANGED <<call, sent, silent, all, microtasks, info, reply, firstFail, remote>>
  /\ UNCHANGED fnVars

FnOff == fnIn = None /\ fnOut = None /\ fnPc = "off"

Init ==
  /\ pc = "idle"
  /\ call = [i \in Calls |-> [st |-> "unsent", body |-> None, out |-> None]]
  /\ sent = <<>>
  /\ silent = {}
  /\ all = None
  /\ microtasks = <<>>
  /\ info = None
  /\ reply = None
  /\ firstFail = 0
  /\ remote \in RemoteResults
  /\ FnOff

Next ==
  \/ InteractionCreate
  \/ DeferReplyDone
  \/ \E i \in Calls : Issue(i)
  \/ \E i \in Calls : RemoteSilent(i)
  \/ \E i \in Calls : FetchSettled(i)
  \/ \E i \in Calls : BodyRead(i)
  \/ PromiseAllReact
  \/ GetPNodesInfoResume
  \/ HandlerResume
  \/ EditReplyDone

Spec == Init /\ [][Next]_vars

\* ------------------------------------------------------------------------
\* Function-level specification: each function applied to bounded inputs
\* ------------------------------------------------------------------------
V042RC == <<"0", ".", "4", ".", "2", "-", "R", "C">>

\* Entries of a pods array: records with a version string (one holding
\* 0.4.0 inside a longer version, one with an upper-case suffix), with a
\* numeric version, without version, and a null entry.
FnPods ==
  { Pod(Str(V040)), Pod(Str(V041)), Pod(Str(V1040)), Pod(Str(V042RC)),
    Pod(Num(40)), Obj(<<>>), Null }

RECURSIVE SeqsUpTo(_, _)
SeqsUpTo(S, n) ==
  IF n = 0 THEN {<<>>}
  ELSE LET shorter == SeqsUpTo(S, n - 1) IN
       shorter \cup {Append(q, x) : q \in {r \in shorter : Len(r) = n - 1}, x \in S}

FnPodsFields ==
  {Arr(L) : L \in SeqsUpTo(FnPods, MaxPods)} \cup {Str(<<"none">>), Null, Obj(<<>>)}
FnTotals == {Num(n) : n \in 0..MaxTotal} \cup {Str(<<"4">>), Null}

\* RPC results: objects with and without pods and total_count, and values
\* that are no object.
FnResults ==
  {PodsResult(p.a, c) : p \in {q \in FnPodsFields : q.t = "arr"}, c \in FnTotals}
  \cup {Obj([pods |-> p, total_count |-> c]) : p \in {q \in FnPodsFields : q.t /= "arr"}, c \in FnTotals}
  \cup {Obj([pods |-> p]) : p \in FnPodsFields}
  \cup {Obj([total_count |-> c]) : c \in FnTotals}
  \cup {Obj(<<>>), Undefined, Null, Num(0), Num(5), Str(<<>>), Arr(<<>>)}

DocumentedResult ==
  PodsResult(<<Pod(Str(V040)), Pod(Str(V041)), Pod(Str(V041)), Pod(Str(V042))>>, Num(4))

\* Values of the error field of a response body.
FnErrors ==
  { Null, Bool(FALSE), Num(0), Str(<<>>), Bool(TRUE), Str(<<"boom">>),
    Obj([code |-> Num(-32601), message |-> Str(<<"method not found">>)]),
    Obj([message |-> Str(<<"no code">>)]) }

FnSmallBodies == {[t |-> "unparsable"], RpcErrorBody, ResultBody(DocumentedResult)}

FnFetchOutcomes ==
  {ConnectionRefused}
  \cup {Response(404, <<"Not Found">>, b) : b \in FnSmallBodies}
  \cup {Response(500, <<"Internal Server Error">>, b) : b \in FnSmallBodies}
  \cup {Response(204, <<"No Content">>, [t |-> "unparsable"])}
  \cup {Response(200, <<"OK">>, b) :
          b \in {[t |-> "unparsable"], [t |-> "json", data |-> Null],
                 [t |-> "json", data |-> Num(5)]}}
  \cup {Response(200, <<"OK">>, [t |-> "json", data |-> Obj([error |-> e])]) : e \in FnErrors}
  \cup {Response(200, <<"OK">>, [t |-> "json", data |-> Obj([error |-> e, result |-> DocumentedResult])]) :
          e \in FnErrors}
  \cup {Response(200, <<"OK">>, ResultBody(r)) : r \in FnResults}

FnFragments == {<<>>, V040, V041, V042, <<"9">>, <<"r", "c">>}

FnInit ==
  /\ pc = "idle"
  /\ call = [i \in Calls |-> [st |-> "unsent", body |-> None, out |-> None]]
  /\ sent = <<>>
  /\ silent = {}
  /\ all = None
  /\ microtasks = <<>>
  /\ info = None
  /\ reply = None
  /\ firstFail = 0
  /\ remote = Undefined
  /\ fnIn \in [fo : FnFetchOutcomes, frag : FnFragments]
  /\ fnOut = [rpc |-> None, pods |-> None, count |-> None, total |-> None, report |-> None]
  /\ fnPc = "rpcCall"

\* rpcCall on the fetch outcome.
ApplyRpcCall ==
  /\ fnPc = "rpcCall"
  /\ fnOut' = [fnOut EXCEPT !.rpc = RpcCall(fnIn.fo)]
  /\ fnPc' = IF fnOut'.rpc.type = "return" THEN "extractPods" ELSE "getPodsByVersion"
  /\ UNCHANGED <<fnIn, handlerVars>>

\* extractPods on what rpcCall returned.
ApplyExtractPods ==
  /\ fnPc = "extractPods"
  /\ fnOut' = [fnOut EXCEPT !.pods = ExtractPods(fnOut.rpc.value)]
  /\ fnPc' = "getPodsByVersion"
  /\ UNCHANGED <<fnIn, handlerVars>>

\* getPodsByVersion(fragment) whose rpcCall completed as computed.
ApplyGetPodsByVersion ==
  /\ fnPc = "getPodsByVersion"
  /\ fnOut' = [fnOut EXCEPT !.count = GetPodsByVersion(fnOut.rpc, fnIn.frag)]
  /\ fnPc' = "getTotalPods"
  /\ UNCHANGED <<fnIn, handlerVars>>

\* getTotalPods whose rpcCall completed as computed.
ApplyGetTotalPods ==
  /\ fnPc = "getTotalPods"
  /\ fnOut' = [fnOut EXCEPT !.total = GetTotalPods(fnOut.rpc)]
  /\ fnPc' = "getPNodesInfo"
  /\ UNCHANGED <<fnIn, handlerVars>>

\* The completion of call i of getPNodesInfo when its rpcCall completed as c.
CallCompletion(i, c) ==
  IF i = TotalCall THEN GetTotalPods(c) ELSE GetPodsByVersion(c, Fragment(i))

\* getPNodesInfo when each of its four requests gets the same fetch outcome
\* (the calls then settle in argument order).
InfoOfUniform(c) ==
  LET a1 == AllAfter(NewPromiseAll, 1, CallCompletion(1, c))
      a2 == AllAfter(a1, 2, CallCompletion(2, c))
      a3 == AllAfter(a2, 3, CallCompletion(3, c))
      a4 == AllAfter(a3, 4, CallCompletion(4, c)) IN
  GetPNodesInfoBody(a4)

ApplyGetPNodesInfo ==
  /\ fnPc = "getPNodesInfo"
  /\ fnOut' = [fnOut EXCEPT !.report = InfoOfUniform(fnOut.rpc)]
  /\ fnPc' = "end"
  /\ UNCHANGED <<fnIn, handlerVars>>

FnNext ==
  \/ ApplyRpcCall
  \/ ApplyExtractPods
  \/ ApplyGetPodsByVersion
  \/ ApplyGetTotalPods
  \/ ApplyGetPNodesInfo

FnSpec == FnInit /\ [][FnNext]_vars

\* ------------------------------------------------------------------------
\* Properties of the handler specification
\* ------------------------------------------------------------------------
IsText(x) == x = <<>> \/ (DOMAIN x = 1..Len(x) /\ \A k \in 1..Len(x) : x[k] \in STRING)

\* s contains f as a contiguous run of pieces.
HasSubText(s, f) == \E a \in 0..Len(s) : \E b \in a..Len(s) : SubSeq(s, a + 1, b) = f

IsErrorText(x) == x /= <<>> /\ x[1] = ErrorPrefix
IsReportText(x) == HasSubText(x, <<"pNodes Version: Counts\n">>)
Returned == info /= None

\* C1: getPNodesInfo never raises.  The handler never sees a thrown
\* completion (it never crashes on one), every completion of getPNodesInfo is
\* a returned text, and once all four calls have settled, whatever their
\* outcomes and order, and the job queue is drained, getPNodesInfo has
\* returned and its text has been handed to editReply.
C1_NeverRaises ==
  /\ pc /= "crashed"
  /\ Returned => info.type = "return" /\ IsText(info.value)
  /\ ((\A i \in Calls : Settled(i)) /\ microtasks = <<>>)
       => Returned /\ pc \in {"editing", "done"} /\ reply = info.value

\* C1 witness: the command ended after a connection failure, a TypeError on
\* a malformed result, an RPC error and one success.
C1_Witness ==
  /\ pc = "done"
  /\ call[1].st = "rejected" /\ call[1].out.error.name = "FetchError"
  /\ call[2].st = "rejected" /\ call[2].out.error.name = "TypeError"
  /\ call[3].st = "rejected" /\ call[3].out.error.name = "Error"
  /\ call[4].st = "fulfilled"

\* C2: if any of the four calls raised, the returned text is the error
\* message: it starts with "Error retrieving data: ", continues with the
\* message of a failed call and holds no part of the report; a report is
\* returned only when all four calls succeeded.
C2_ErrorHidesPartialResults ==
  Returned =>
    /\ (\E i \in Calls : call[i].st = "rejected") =>
         /\ info.type = "return"
         /\ IsErrorText(info.value)
         /\ \E j \in Calls : /\ call[j].st = "rejected"
                             /\ info.value = <<ErrorPrefix>> \o call[j].out.error.message
                             /\ HasSubText(info.value, call[j].out.error.message)
         /\ ~IsReportText(info.value)
         /\ ~HasSubText(info.value, <<"         Total:    ">>)
         /\ \A i \in Calls : call[i].st = "fulfilled" =>
              info.value = <<ErrorPrefix>> \o all.reason.message
    /\ (info.type = "return" /\ IsReportText(info.value)) =>
         \A i \in Calls : call[i].st = "fulfilled"

\* C2 witness: an error text was sent although the total and one count had
\* been computed.
C2_Witness ==
  /\ pc = "done"
  /\ call[4].st = "fulfilled" /\ call[4].out.value > 0
  /\ call[2].st = "fulfilled" /\ call[2].out.value > 0
  /\ call[1].st = "rejected"
  /\ IsErrorText(reply)

\* C7: a report is composed only after all four calls have completed: when
\* Promise.all is fulfilled, or getPNodesInfo has returned a report, no call
\* is unsent, in flight or being parsed.
C7_ReportAfterAllFour ==
  /\ (all /= None /\ all.st = "fulfilled") => \A i \in Calls : call[i].st = "fulfilled"
  /\ (Returned /\ info.type = "return" /\ IsReportText(info.value))
       => /\ \A i \in Calls : call[i].st = "fulfilled"
          /\ all.remaining = 0
          /\ info.value = ReportText(call[1].out.value, call[2].out.value,
                                     call[3].out.value, call[4].out.value)

\* C7 witness: a report was returned.
C7_Witness ==
  /\ Returned /\ IsReportText(info.value)
  /\ \A i \in Calls : call[i].st = "fulfilled"
  /\ call[1].out.value = 1 /\ call[2].out.value = 2

\* C8: fail-fast.  Promise.all is rejected with the error of the call that
\* failed first in time, getPNodesInfo returns that error's message, and once
\* the job queue is drained after the first failure the text is on its way to
\* editReply, whatever the state of the other calls.
C8_FailFast ==
  /\ (all /= None /\ all.st = "rejected")
       => firstFail /= 0 /\ all.reason = call[firstFail].out.error
  /\ (Returned /\ firstFail /= 0)
       => info = Return(<<ErrorPrefix>> \o call[firstFail].out.error.message)
  /\ (firstFail /= 0 /\ microtasks = <<>>)
       => Returned /\ pc \in {"editing", "done"} /\ reply = info.value

\* C8 witness: call 3 failed first and its message was sent while call 2 was
\* still in flight; call 1, earlier in argument order, failed later with
\* another message.
C8_Witness ==
  /\ pc = "done"
  /\ firstFail = 3
  /\ call[2].st = "fetching"
  /\ call[1].st = "rejected"
  /\ call[1].out.error /= call[3].out.error
  /\ reply = <<ErrorPrefix>> \o call[3].out.error.message

\* C9: the four requests are issued concurrently.  No response is processed
\* (no call is past its fetch) while a request is unsent, every request sent
\* is the method get-pods with empty params, and one request is sent per
\* call started.
C9_IssuedConcurrently ==
  /\ (\E i \in Calls : call[i].st \notin {"unsent", "fetching"})
       => \A j \in Calls : call[j].st /= "unsent"
  /\ Len(sent) = Cardinality({i \in Calls : call[i].st /= "unsent"})
  /\ \A k \in 1..Len(sent) : sent[k].method = "get-pods" /\ sent[k].params = <<>>
  /\ pc = "issuing" => \A i \in Calls : call[i].st \in {"unsent", "fetching"}
  /\ pc \in {"awaitAll", "editing", "done"} => Len(sent) = 4

\* C9 witness: all four requests are in flight and no response has arrived.
C9_Witness ==
  /\ pc = "awaitAll"
  /\ Len(sent) = 4
  /\ \A i \in Calls : call[i].st = "fetching"

\* ------------------------------------------------------------------------
\* Properties of the function-level specification
\* ------------------------------------------------------------------------
\* The shape of an input, read off the input itself.
FnResponse == fnIn.fo.t = "response"
FnParsed == FnResponse /\ fnIn.fo.ok /\ fnIn.fo.body.t = "json"
FnData == fnIn.fo.body.data
HasField(v, name) == v.t = "obj" /\ name \in DOMAIN v.f
FnErrorField == IF HasField(FnData, "error") THEN FnData.f.error ELSE Undefined
FnResultField == IF HasField(FnData, "result") THEN FnData.f.result ELSE Undefined
Falsy == {Undefined, Null, Bool(FALSE), Num(0), Str(<<>>)}
HasPodsList(r) == HasField(r, "pods") /\ r.f.pods.t = "arr"
HasNumericTotal(r) == HasField(r, "total_count") /\ r.f.total_count.t = "num"
FnRpcDone == fnPc /= "rpcCall"
FnReturned == FnRpcDone /\ fnOut.rpc.type = "return"

\* The entries of list L whose version, as text, contains f.
VersionText(pod) == ToText(IF HasField(pod, "version") THEN pod.f.version ELSE Undefined)
Matching(L, f) == {k \in 1..Len(L) : HasSubText(VersionText(L[k]), f)}

\* C3: when the four calls succeed on the same result with pods list L and
\* numeric total_count T, the count for a fragment is the number of entries
\* of L whose version text contains it (every entry for the empty fragment,
\* none for a fragment in no version), and the report shows these counts for
\* 0.4.0, 0.4.1 and 0.4.2 and T as the total.
C3_CountsBySubstring ==
  (fnPc = "end" /\ FnReturned /\ HasPodsList(fnOut.rpc.value)
     /\ HasNumericTotal(fnOut.rpc.value) /\ fnOut.count.type = "return")
  => LET L == fnOut.rpc.value.f.pods.a
         T == fnOut.rpc.value.f.total_count.n IN
     /\ fnOut.count = Return(Cardinality(Matching(L, fnIn.frag)))
     /\ fnIn.frag = <<>> => fnOut.count.value = Len(L)
     /\ (\A k \in 1..Len(L) : ~HasSubText(VersionText(L[k]), fnIn.frag))
          => fnOut.count.value = 0
     /\ fnOut.report = Return(ReportText(Cardinality(Matching(L, V040)),
                                         Cardinality(Matching(L, V041)),
                                         Cardinality(Matching(L, V042)), T))

\* C3 witness: 0.4.0 is counted inside 10.4.0, and the total is the counter.
C3_Witness ==
  /\ fnPc = "end"
  /\ FnReturned
  /\ fnOut.rpc.value = PodsResult(<<Pod(Str(V1040)), Pod(Str(V041))>>, Num(3))
  /\ fnIn.frag = V040
  /\ fnOut.count = Return(1)
  /\ fnOut.report = Return(ReportText(1, 1, 0, 3))

\* C4: getTotalPods returns total_count whenever it is a number, also when it
\* differs from the length of the pods list; otherwise it returns the length
\* of the pods list, 0 when there is none.
C4_TotalPrefersCounter ==
  (fnPc \in {"getPNodesInfo", "end"} /\ FnReturned)
  => LET r == fnOut.rpc.value IN
     fnOut.total = Return(IF HasNumericTotal(r) THEN r.f.total_count.n
                          ELSE IF HasPodsList(r) THEN Len(r.f.pods.a) ELSE 0)

\* C4 witness: the counter says 3, the list holds one pod, the total is 3.
C4_Witness ==
  /\ fnPc = "end"
  /\ FnReturned
  /\ HasPodsList(fnOut.rpc.value) /\ Len(fnOut.rpc.value.f.pods.a) = 1
  /\ HasNumericTotal(fnOut.rpc.value) /\ fnOut.rpc.value.f.total_count.n = 3
  /\ fnOut.total = Return(3)

TransportError ==
  Throw(Error(<<"RPC request failed: ">> \o NumText(fnIn.fo.status) \o <<" ">> \o fnIn.fo.statusText))
RpcErrorOf(e) ==
  Throw(Error(<<"RPC error (">> \o ToText(IF HasField(e, "code") THEN e.f.code ELSE Undefined)
              \o <<"): ">> \o ToText(IF HasField(e, "message") THEN e.f.message ELSE Undefined)))

\* C6 as stated, for the responses whose body parses: a non-success status
\* gives the transport error, a success status with an error field in the
\* parsed body gives the RPC error, and every other parsed body returns the
\* result field.
C6_AsStated ==
  (FnRpcDone /\ FnResponse)
  => IF ~fnIn.fo.ok THEN fnOut.rpc = TransportError
     ELSE FnParsed =>
            IF HasField(FnData, "error") THEN fnOut.rpc = RpcErrorOf(FnData.f.error)
            ELSE fnOut.rpc = Return(FnResultField)

\* C6 amended: a non-success status gives the transport error whatever the
\* body; with a success status, a body that cannot be parsed or parses to
\* null makes the call fail, a truthy error field gives the RPC error with
\* the field's code and message, and an absent or falsy error field (null,
\* false, 0, "") returns exactly the result field, undefined when missing.
C6_OutcomeByResponse ==
  (FnRpcDone /\ FnResponse)
  => IF ~fnIn.fo.ok THEN fnOut.rpc = TransportError
     ELSE IF fnIn.fo.body.t = "unparsable"
          THEN fnOut.rpc.type = "throw" /\ fnOut.rpc.error.name = "FetchError"
     ELSE IF FnData = Null
          THEN fnOut.rpc.type = "throw" /\ fnOut.rpc.error.name = "TypeError"
     ELSE IF FnErrorField \notin Falsy THEN fnOut.rpc = RpcErrorOf(FnErrorField)
     ELSE fnOut.rpc = Return(FnResultField)

\* C6 witness: a success status, an error field that is null, and the result
\* returned as it is.
C6_Witness ==
  /\ FnRpcDone
  /\ FnParsed
  /\ HasField(FnData, "error") /\ FnData.f.error = Null
  /\ fnOut.rpc = Return(DocumentedResult)

\* C10: for a result that is undefined, null, without pods or with pods that
\* is no list, extractPods returns the empty list and emits one diagnostic
\* (for a result with a pods list it returns the list and emits none); the
\* report of such responses shows the counts 0 and the fallback total and is
\* no error text.
C10_ShapeMismatchDegrades ==
  /\ (fnPc \notin {"rpcCall", "extractPods"} /\ FnReturned)
     => LET r == fnOut.rpc.value IN
        IF HasPodsList(r)
        THEN fnOut.pods = [pods |-> r.f.pods.a, warn |-> <<>>]
        ELSE /\ fnOut.pods.pods = <<>>
             /\ Len(fnOut.pods.warn) = 1
             /\ fnOut.pods.warn[1].arg = r
  /\ (fnPc = "end" /\ FnReturned /\ ~HasPodsList(fnOut.rpc.value))
     => LET r == fnOut.rpc.value IN
        /\ fnOut.count = Return(0)
        /\ fnOut.report = Return(ReportText(0, 0, 0,
                                 IF HasNumericTotal(r) THEN r.f.total_count.n ELSE 0))
        /\ ~IsErrorText(fnOut.report.value)

\* C10 witness: the response has no result at all, and the report shows
\* zeros.
C10_Witness ==
  /\ fnPc = "end"
  /\ FnReturned
  /\ fnOut.rpc.value = Undefined
  /\ fnOut.pods.pods = <<>> /\ Len(fnOut.pods.warn) = 1
  /\ fnOut.report = Return(ReportText(0, 0, 0, 0))

\* ------------------------------------------------------------------------
\* Liveness
\* ------------------------------------------------------------------------
\* The steps of the program and of the services that answer it: everything
\* but the endpoint's choice to leave a request unanswered.
Progress ==
  \/ InteractionCreate
  \/ DeferReplyDone
  \/ \E i \in Calls : Issue(i)
  \/ \E i \in Calls : FetchSettled(i)
  \/ \E i \in Calls : BodyRead(i)
  \/ PromiseAllReact
  \/ GetPNodesInfoResume
  \/ HandlerResume
  \/ EditReplyDone

\* The event loop runs every job and every callback whose event arrived, and
\* the chat platform and the endpoint answer every request they have not
\* decided to leave unanswered: while such a step is possible, one is taken.
\* Nothing obliges the endpoint to go silent.
Fairness == WF_vars(Progress)

\* The liveness specification serves the documented example result only: what
\* a successful response holds has no bearing on whether a reply is sent.
LiveInit ==
  /\ Init
  /\ remote = PodsResult(<<Pod(Str(V040)), Pod(Str(V041)), Pod(Str(V041)), Pod(Str(V042))>>, Num(4))

LiveSpec == LiveInit /\ [][Next]_vars /\ Fairness

\* C5: every pnodes command eventually receives a reply that is a readable
\* text, whatever the remote endpoint does: after deferReply, editReply is
\* eventually called with a text.
C5_EventuallyReplied ==
  (pc = "deferring") ~> (pc \in {"editing", "done"} /\ reply /= None /\ IsText(reply))

=============================================================================
